---- MODULE Spec2Model ----
(***************************************************************************)
(* Model of code/chap11.ipynb (Modeling and Simulation in Python, chapter  *)
(* 11: Rotation).  The notebook runs three scenarios -- rolling paper,     *)
(* unrolling paper, yo-yo -- as a straight sequence of cells over one      *)
(* Python global namespace.                                                *)
(*                                                                         *)
(* Numbers.  The notebook computes with Python floats.  They are modelled  *)
(* as decimal floating-point numbers <<m, e>> (value m * 10^e) with a      *)
(* six-digit mantissa, every operation rounding its result; a non-finite   *)
(* result (division by zero in numpy arithmetic, square root of a negative *)
(* number) is NaN.                                                         *)
(***************************************************************************)
EXTENDS Integers, Sequences, FiniteSets, TLC

\* ------------------------------------------------------------------------
\* Floating-point arithmetic
\* ------------------------------------------------------------------------

\* Half of the mantissa width: a mantissa has two groups of three digits.
Half == 10 * 10 * 10
MantLo == (Half * Half) \div 10
MantHi == Half * Half

NaN == <<0, 9999>>
Zero == <<0, 0>>

IsNaN(a) == a = NaN

Abs(n) == IF n < 0 THEN -n ELSE n
Sgn(n) == IF n < 0 THEN -1 ELSE IF n > 0 THEN 1 ELSE 0

RECURSIVE Pow10(_)
Pow10(n) == IF n <= 0 THEN 1 ELSE 10 * Pow10(n - 1)

\* Scale a non-negative mantissa into [MantLo, MantHi), rounding to nearest.
RECURSIVE NormPos(_, _)
NormPos(m, e) ==
    IF m = 0 THEN Zero
    ELSE IF m >= MantHi * 10 THEN NormPos(m \div 10, e + 1)
    ELSE IF m >= MantHi THEN NormPos((m + 5) \div 10, e + 1)
    ELSE IF m < MantLo THEN NormPos(m * 10, e - 1)
    ELSE <<m, e>>

Norm(m, e) ==
    LET n == NormPos(Abs(m), e) IN <<Sgn(m) * n[1], n[2]>>

\* Long division: n further decimal digits of the quotient whose integer part
\* is q and whose remainder is r.
RECURSIVE LongDiv(_, _, _, _)
LongDiv(r, b, q, n) ==
    IF n = 0 THEN q
    ELSE LongDiv((r * 10) % b, b, q * 10 + ((r * 10) \div b), n - 1)

FNeg(a) == IF IsNaN(a) THEN NaN ELSE <<-a[1], a[2]>>

FMul(a, b) ==
    IF IsNaN(a) \/ IsNaN(b) THEN NaN
    ELSE LET x == Abs(a[1])
             y == Abs(b[1])
             x1 == x \div Half
             x0 == x % Half
             y1 == y \div Half
             y0 == y % Half
             p == x1 * y1 * Half + x1 * y0 + x0 * y1 + ((x0 * y0) \div Half)
         IN  Norm(Sgn(a[1]) * Sgn(b[1]) * p, a[2] + b[2] + 3)

\* a / b; a zero divisor gives NaN (the caller decides whether Python raises).
FDiv(a, b) ==
    IF IsNaN(a) \/ IsNaN(b) \/ b[1] = 0 THEN NaN
    ELSE LET x == Abs(a[1])
             y == Abs(b[1])
             q == LongDiv(x % y, y, x \div y, 7)
         IN  Norm(Sgn(a[1]) * Sgn(b[1]) * q, a[2] - b[2] - 7)

\* hi + lo for hi[2] >= lo[2]: hi is scaled up by up digits, lo rounded to
\* the digits that are left.
AddScaled(hi, lo, up, down) ==
    Norm(hi[1] * Pow10(up)
           + Sgn(lo[1]) * ((Abs(lo[1]) + (Pow10(down) \div 2)) \div Pow10(down)),
         hi[2] - up)

AddAligned(hi, lo, diff) ==
    IF diff > 9 THEN hi
    ELSE IF diff > 3 THEN AddScaled(hi, lo, 3, diff - 3)
    ELSE AddScaled(hi, lo, diff, 0)

FAdd(a, b) ==
    IF IsNaN(a) \/ IsNaN(b) THEN NaN
    ELSE IF a[1] = 0 THEN b
    ELSE IF b[1] = 0 THEN a
    ELSE IF a[2] >= b[2] THEN AddAligned(a, b, a[2] - b[2])
    ELSE AddAligned(b, a, b[2] - a[2])

FSub(a, b) == FAdd(a, FNeg(b))

FSign(a) == Sgn(a[1])
FLess(a, b) == ~IsNaN(a) /\ ~IsNaN(b) /\ FSign(FSub(a, b)) < 0
FLeq(a, b) == ~IsNaN(a) /\ ~IsNaN(b) /\ FSign(FSub(a, b)) <= 0
FAbs(a) == IF IsNaN(a) THEN NaN ELSE <<Abs(a[1]), a[2]>>

\* Integer square root by bisection: the largest s in lo..hi with s * s <= n.
RECURSIVE ISqrt(_, _, _)
ISqrt(n, lo, hi) ==
    IF lo >= hi THEN lo
    ELSE LET mid == (lo + hi + 1) \div 2
         IN  IF mid * mid <= n THEN ISqrt(n, mid, hi) ELSE ISqrt(n, lo, mid - 1)

\* One Newton step for the square root of a from the estimate x0.
Newton(a, x0) == FMul(FAdd(x0, FDiv(a, x0)), <<500000, -6>>)

\* sqrt: a first estimate from the integer square root of the mantissa m
\* scaled to an even exponent e, then one Newton step.
SqrtEven(a, m, e) == Newton(a, Norm(ISqrt(m * 100, 0, 40000), (e - 2) \div 2))

FSqrt(a) ==
    IF IsNaN(a) \/ a[1] < 0 THEN NaN
    ELSE IF a[1] = 0 THEN Zero
    ELSE IF (a[2] % 2) # 0 THEN SqrtEven(a, a[1] * 10, a[2] - 1)
    ELSE SqrtEven(a, a[1], a[2])

\* The float of the integer n, and of the decimal literal n * 10^e.
Lit(n, e) == Norm(n, e)
Num(n) == Norm(n, 0)

\* ------------------------------------------------------------------------
\* Values of the notebook
\* ------------------------------------------------------------------------

Scenarios == {"Roll", "Unroll", "Yoyo"}

\* The names a Condition or a System can hold and unpack makes global.
Names == {"Rmin", "Rmax", "L", "duration", "Mcore", "Mroll", "tension",
          "Rout", "mass", "g", "k", "rho_h", "I"}

\* No value: a name that is not bound, a field a Series does not have.
Undef == <<1, 9999>>
NoSeries == [n \in Names |-> Undef]

Defined(G, ns) == \A n \in ns : G[n] # Undef

\* numpy's pi, to the model's six digits.
pi == Lit(314159, -5)

\* modsim's unpack(series): every field of the series becomes a global
\* variable of the notebook; the other globals stay as they are.
unpack(series, G) == [n \in Names |-> IF series[n] # Undef THEN series[n] ELSE G[n]]

\* modsim's linspace(start, stop, num), start = 0: num evenly spaced
\* points, the last one being stop itself.
linspace(stop, num) ==
    LET step == FDiv(stop, Num(num - 1))
    IN  [i \in 1..num |-> IF i = num THEN stop ELSE FMul(Num(i - 1), step)]

\* A System object.  results = <<>>: the object has no results attribute.
\* id tells the objects apart: the n-th System created has id n.
NoSystem ==
    [id |-> 0, index |-> <<>>, init |-> <<>>, fields |-> NoSeries, ts |-> <<>>, results |-> <<>>]

System(index, init, fields, ts) ==
    [id |-> 0, index |-> index, init |-> init, fields |-> fields, ts |-> ts, results |-> <<>>]

\* The number of points of the time grid.
NumSamples == 101

\* ------------------------------------------------------------------------
\* Rolling paper
\* ------------------------------------------------------------------------

\* estimate_k with the radii subtracted the other way round.
estimate_k_Swapped(condition, G) ==
    LET g == unpack(condition, G)
    IN  IF ~Defined(g, {"Rmin", "Rmax", "L"}) THEN NaN
        ELSE LET Ravg == FDiv(FAdd(g["Rmax"], g["Rmin"]), Num(2))
                 Cavg == FMul(FMul(Num(2), pi), Ravg)
                 revs == FDiv(g["L"], Cavg)
                 rads == FMul(FMul(Num(2), pi), revs)
             IN  FDiv(FSub(g["Rmin"], g["Rmax"]), rads)

\* The total rotation computed from the largest circumference, not the average.
total_rotation_Rmax(g) ==
    LET Cavg == FMul(FMul(Num(2), pi), g["Rmax"])
        revs == FDiv(g["L"], Cavg)
    IN  FMul(FMul(Num(2), pi), revs)

\* The total rotation computed from the difference of the radii, which is 0
\* for equal radii.
total_rotation_Diff(g) ==
    LET Ravg == FDiv(FSub(g["Rmax"], g["Rmin"]), Num(2))
        Cavg == FMul(FMul(Num(2), pi), Ravg)
        revs == FDiv(g["L"], Cavg)
    IN  FMul(FMul(Num(2), pi), revs)

\* The total rotation estimate_k computes: rads.
total_rotation(g) ==
    LET Ravg == FDiv(FAdd(g["Rmax"], g["Rmin"]), Num(2))
        Cavg == FMul(FMul(Num(2), pi), Ravg)
        revs == FDiv(g["L"], Cavg)
    IN  FMul(FMul(Num(2), pi), revs)

\* estimate_k(condition); NaN stands for the call raising (a name that is
\* not bound, a division by zero between Python floats).
estimate_k(condition, G) ==
    LET g == unpack(condition, G)
    IN  IF ~Defined(g, {"Rmin", "Rmax", "L"}) THEN NaN
        ELSE LET rads == total_rotation(g)
                 k == FDiv(FSub(g["Rmax"], g["Rmin"]), rads)
             IN  k

\* make_system of the rolling-paper section with a time grid one point short.
make_system_Roll_Short(condition, G) ==
    LET g == unpack(condition, G)
        k == estimate_k(condition, g)
    IN  IF ~Defined(g, {"Rmin", "duration"}) \/ IsNaN(k) THEN NoSystem
        ELSE System(<<"theta", "y", "r">>,
                    <<Zero, Zero, g["Rmin"]>>,
                    [NoSeries EXCEPT !["k"] = k],
                    linspace(g["duration"], NumSamples - 1))

\* make_system(condition) of the rolling-paper section; NoSystem stands for
\* the call raising.
make_system_Roll(condition, G) ==
    LET g == unpack(condition, G)
        k == estimate_k(condition, g)
    IN  IF ~Defined(g, {"Rmin", "duration"}) \/ IsNaN(k) THEN NoSystem
        ELSE System(<<"theta", "y", "r">>,
                    <<Zero, Zero, g["Rmin"]>>,
                    [NoSeries EXCEPT !["k"] = k],
                    linspace(g["duration"], NumSamples))

\* The angular velocity the rolling-paper slope function assumes.
omega_Roll == Num(10)

\* The return statement of the rolling-paper slope function, each value
\* named by the state variable it is the derivative of: omega, dydt, drdt.
returns_Roll == <<"theta", "y", "r">>

\* slope_func(state, t, system) of the rolling-paper section; <<>> stands
\* for the call raising.
slope_func_Roll(state, t, system, G) ==
    LET g == unpack(system.fields, G)
    IN  IF Len(state) # 3 \/ ~Defined(g, {"k"}) THEN <<>>
        ELSE LET r == state[3]
                 omega == omega_Roll
                 dydt == FMul(r, omega)
                 drdt == FMul(g["k"], omega)
                 d == [theta |-> omega, y |-> dydt, r |-> drdt]
             IN  [i \in 1..Len(returns_Roll) |-> d[returns_Roll[i]]]

\* ------------------------------------------------------------------------
\* Unrolling paper
\* ------------------------------------------------------------------------

Sq(x) == FMul(x, x)

make_system_Unroll(condition, G) ==
    LET g == unpack(condition, G)
    IN  IF ~Defined(g, {"Rmin", "Rmax", "Mcore", "Mroll", "L", "duration"}) THEN NoSystem
        ELSE LET area == FMul(pi, FSub(Sq(g["Rmax"]), Sq(g["Rmin"])))
                 rho_h == FDiv(g["Mroll"], area)
                 k == FDiv(FDiv(FSub(Sq(g["Rmax"]), Sq(g["Rmin"])), Num(2)), g["L"])
             IN  IF IsNaN(rho_h) \/ IsNaN(k) THEN NoSystem
                 ELSE System(<<"theta", "omega", "y">>,
                             <<Zero, Zero, g["L"]>>,
                             [NoSeries EXCEPT !["k"] = k, !["rho_h"] = rho_h,
                                              !["Rmin"] = g["Rmin"], !["Rmax"] = g["Rmax"],
                                              !["Mcore"] = g["Mcore"], !["Mroll"] = g["Mroll"]],
                             linspace(g["duration"], NumSamples))

\* moment_of_inertia(r, system); NaN also stands for the call raising.
moment_of_inertia(r, system, G) ==
    LET g == unpack(system.fields, G)
    IN  IF ~Defined(g, {"Mcore", "Rmin", "rho_h"}) THEN NaN
        ELSE LET Icore == FMul(g["Mcore"], Sq(g["Rmin"]))
                 Iroll == FMul(FDiv(FMul(pi, g["rho_h"]), Num(2)),
                               FSub(Sq(Sq(r)), Sq(Sq(g["Rmin"]))))
             IN  FAdd(Icore, Iroll)

\* The unrolling slope function returning alpha before omega.
returns_Unroll_Swapped == <<"omega", "theta", "y">>

\* The return statement of the unrolling slope function: omega, alpha, dydt.
returns_Unroll == <<"theta", "omega", "y">>

\* The radius with the factor 2 of 2*k*y lost.
radius_Unroll_NoTwo(y, g) == FSqrt(FAdd(FMul(g["k"], y), Sq(g["Rmin"])))

\* r = sqrt(2*k*y + Rmin**2) of the unrolling slope function, and the
\* argument of its square root.
radicand_Unroll(y, g) == FAdd(FMul(FMul(Num(2), g["k"]), y), Sq(g["Rmin"]))
radius_Unroll(y, g) == FSqrt(radicand_Unroll(y, g))

\* The unrolling derivatives with the sign of dydt lost.
derivatives_Unroll_Sign(omega, r, system, g) ==
    LET I == moment_of_inertia(r, system, g)
        tau == FMul(r, g["tension"])
        alpha == FDiv(tau, I)
        dydt == FMul(r, omega)
        d == [theta |-> omega, omega |-> alpha, y |-> dydt]
    IN  [i \in 1..Len(returns_Unroll) |-> d[returns_Unroll[i]]]

\* The lines of the unrolling slope function after r = sqrt(...): I, tau,
\* alpha, dydt and the return statement.
derivatives_Unroll(omega, r, system, g) ==
    LET I == moment_of_inertia(r, system, g)
        tau == FMul(r, g["tension"])
        alpha == FDiv(tau, I)
        dydt == FMul(FNeg(r), omega)
        d == [theta |-> omega, omega |-> alpha, y |-> dydt]
    IN  [i \in 1..Len(returns_Unroll) |-> d[returns_Unroll[i]]]

\* slope_func(state, t, system) of the unrolling section; it reads tension,
\* which its System does not hold, from the globals.
slope_func_Unroll(state, t, system, G) ==
    LET g == unpack(system.fields, G)
    IN  IF Len(state) # 3 \/ ~Defined(g, {"k", "Rmin", "Mcore", "rho_h", "tension"}) THEN <<>>
        ELSE derivatives_Unroll(state[2], radius_Unroll(state[3], g), system, g)

\* ------------------------------------------------------------------------
\* Yo-yo
\* ------------------------------------------------------------------------

make_system_Yoyo(condition, G) ==
    LET g == unpack(condition, G)
    IN  IF ~Defined(g, {"Rmin", "Rmax", "Rout", "mass", "L", "g", "duration"}) THEN NoSystem
        ELSE LET I == FDiv(FMul(g["mass"], Sq(g["Rout"])), Num(2))
                 k == FDiv(FDiv(FSub(Sq(g["Rmax"]), Sq(g["Rmin"])), Num(2)), g["L"])
             IN  IF IsNaN(k) THEN NoSystem
                 ELSE System(<<"theta", "omega", "y", "v">>,
                             <<Zero, Zero, g["L"], Zero>>,
                             [NoSeries EXCEPT !["k"] = k,
                                              !["Rmin"] = g["Rmin"], !["Rmax"] = g["Rmax"],
                                              !["mass"] = g["mass"], !["I"] = I, !["g"] = g["g"]],
                             linspace(g["duration"], NumSamples))

\* The return statement of the yo-yo slope function: omega, alpha, v, a.
returns_Yoyo == <<"theta", "omega", "y", "v">>

\* The equations of the yo-yo exercise at radius r:
\* alpha = m g r / I*, a = -m g r^2 / I*, I* = I + m r^2.
derivatives_Yoyo(omega, v, r, g) ==
    LET Istar == FAdd(g["I"], FMul(g["mass"], Sq(r)))
        alpha == FDiv(FMul(FMul(g["mass"], g["g"]), r), Istar)
        a == FDiv(FMul(FNeg(FMul(g["mass"], g["g"])), Sq(r)), Istar)
        d == [theta |-> omega, omega |-> alpha, y |-> v, v |-> a]
    IN  [i \in 1..Len(returns_Yoyo) |-> d[returns_Yoyo[i]]]

\* The yo-yo slope function without the case for y below 0.
slope_func_Yoyo_NoFreeze(state, t, system, G) ==
    LET g == unpack(system.fields, G)
    IN  IF Len(state) # 4 \/ ~Defined(g, {"k", "Rmin", "mass", "I", "g"}) THEN <<>>
        ELSE derivatives_Yoyo(
                 state[2], state[4],
                 FSqrt(FAdd(FMul(FMul(Num(2), g["k"]), state[3]), Sq(g["Rmin"]))),
                 g)

\* The yo-yo slope function the notebook asks for: the equations of the
\* exercise, and all-zero derivatives once y is below 0.
slope_func_Yoyo(state, t, system, G) ==
    LET g == unpack(system.fields, G)
    IN  IF Len(state) # 4 \/ ~Defined(g, {"k", "Rmin", "mass", "I", "g"}) THEN <<>>
        ELSE IF FLess(state[3], Zero) THEN <<Zero, Zero, Zero, Zero>>
        ELSE derivatives_Yoyo(
                 state[2], state[4],
                 FSqrt(FAdd(FMul(FMul(Num(2), g["k"]), state[3]), Sq(g["Rmin"]))),
                 g)

\* ------------------------------------------------------------------------
\* Integration
\* ------------------------------------------------------------------------

\* The function bound to the name slope_func ("none": the name is not bound).
slope_func(fn, state, t, system, G) ==
    IF fn = "Roll" THEN slope_func_Roll(state, t, system, G)
    ELSE IF fn = "Unroll" THEN slope_func_Unroll(state, t, system, G)
    ELSE IF fn = "Yoyo" THEN slope_func_Yoyo(state, t, system, G)
    ELSE <<>>

\* x + h * d, component by component.
Axpy(x, h, d) == [i \in 1..Len(x) |-> FAdd(x[i], FMul(h, d[i]))]

\* One step of the integrator from t0 to t1: the explicit trapezoidal rule.
\* <<>>: the slope function raised or returned a tuple of another length.
Corrector(x, h, k1, k2) ==
    IF Len(k2) # Len(x) THEN <<>>
    ELSE Axpy(Axpy(x, FMul(h, Lit(5, -1)), k1), FMul(h, Lit(5, -1)), k2)

Predictor(fn, x, h, k1, t1, system, G) ==
    IF Len(k1) # Len(x) THEN <<>>
    ELSE Corrector(x, h, k1, slope_func(fn, Axpy(x, h, k1), t1, system, G))

OdeStep(fn, x, t0, t1, system, G) ==
    Predictor(fn, x, FSub(t1, t0), slope_func(fn, x, t0, system, G), t1, system, G)

\* odeint(slope_func, init, ts, (system,)): one row per point of ts, the
\* first row being init.  Rows(..., rows, n) appends the next n rows to rows,
\* half of them at a time; <<>>: a step failed.
AppendRow(rows, x) == IF x = <<>> THEN <<>> ELSE Append(rows, x)

RECURSIVE Rows(_, _, _, _, _)
Rows(fn, rows, n, system, G) ==
    IF rows = <<>> \/ n = 0 THEN rows
    ELSE IF n = 1 THEN
        AppendRow(rows, OdeStep(fn, rows[Len(rows)], system.ts[Len(rows)],
                                system.ts[Len(rows) + 1], system, G))
    ELSE Rows(fn, Rows(fn, rows, n \div 2, system, G), n - (n \div 2), system, G)

odeint(fn, init, system, G) == Rows(fn, <<init>>, Len(system.ts) - 1, system, G)

\* run_odeint(system, slope_func): the results the call attaches to the
\* system; <<>> stands for the call raising.
run_odeint(system, fn, G) ==
    IF system.ts = <<>> \/ system.init = <<>> THEN <<>>
    ELSE odeint(fn, system.init, system, unpack(system.fields, G))

\* ------------------------------------------------------------------------
\* Queries
\* ------------------------------------------------------------------------

\* A time series: the pandas Series results.<column>, indexed by ts.
NoTimeSeries == [t |-> <<>>, v |-> <<>>]

\* The column of the results that belongs to the state variable name.
RECURSIVE IndexOf(_, _, _)
IndexOf(index, name, i) ==
    IF i > Len(index) THEN 0
    ELSE IF index[i] = name THEN i
    ELSE IndexOf(index, name, i + 1)

\* system.results.<name>; NoTimeSeries stands for the attribute access
\* raising (no results, no such column).
Column(system, name) ==
    LET c == IndexOf(system.index, name, 1)
    IN  IF system.results = <<>> \/ c = 0 THEN NoTimeSeries
        ELSE [t |-> system.ts, v |-> [i \in 1..Len(system.results) |-> system.results[i][c]]]

\* The first segment of xs that contains q, else the last segment.
Within(xs, q, i) ==
    \/ FLeq(xs[i], q) /\ FLeq(q, xs[i + 1])
    \/ FLeq(xs[i + 1], q) /\ FLeq(q, xs[i])

First(hits, last) ==
    IF hits = {} THEN last ELSE CHOOSE i \in hits : \A j \in hits : i <= j

Segment(xs, q) == First({i \in 1..(Len(xs) - 1) : Within(xs, q, i)}, Len(xs) - 1)

\* modsim's interpolate(series)(q): piecewise-linear interpolation of the
\* samples (xs[i], fs[i]), extrapolating from the last segment.
OnSegment(xs, fs, q, i) ==
    FAdd(fs[i], FMul(FDiv(FSub(fs[i + 1], fs[i]), FSub(xs[i + 1], xs[i])),
                     FSub(q, xs[i])))

Interp(xs, fs, q) ==
    IF Len(xs) < 2 \/ Len(fs) # Len(xs) THEN NaN
    ELSE OnSegment(xs, fs, q, Segment(xs, q))

interpolate(series, q) == Interp(series.t, series.v, q)

\* modsim's interp_inverse(series)(q): interpolation of the inverted series.
interp_inverse(series, q) == Interp(series.v, series.t, q)

\* ------------------------------------------------------------------------
\* The Conditions the cells build
\* ------------------------------------------------------------------------

\* How many of the Conditions below each Condition cell chooses from.
NumRoll == 3
NumUnroll == 3
NumYoyo == 3

Condition_Roll(Rmin, Rmax, L, duration) ==
    [NoSeries EXCEPT !["Rmin"] = Rmin, !["Rmax"] = Rmax, !["L"] = L,
                     !["duration"] = duration]

Condition_Unroll(Rmin, Rmax, Mcore, Mroll, L, tension, duration) ==
    [NoSeries EXCEPT !["Rmin"] = Rmin, !["Rmax"] = Rmax, !["Mcore"] = Mcore,
                     !["Mroll"] = Mroll, !["L"] = L, !["tension"] = tension,
                     !["duration"] = duration]

Condition_Yoyo(Rmin, Rmax, Rout, mass, L, g, duration) ==
    [NoSeries EXCEPT !["Rmin"] = Rmin, !["Rmax"] = Rmax, !["Rout"] = Rout,
                     !["mass"] = mass, !["L"] = L, !["g"] = g,
                     !["duration"] = duration]

\* The first Condition of each list is the one the notebook writes; the
\* others vary its radii, length and duration.
Conditions_Roll ==
    << Condition_Roll(Lit(2, -2), Lit(55, -3), Num(47), Num(130)),
       Condition_Roll(Lit(1, -2), Lit(3, -2), Num(20), Num(130)),
       Condition_Roll(Lit(55, -3), Lit(2, -2), Num(47), Num(130)),
       Condition_Roll(Lit(2, -2), Lit(55, -3), Num(47), Zero) >>

Conditions_Unroll ==
    << Condition_Unroll(Lit(2, -2), Lit(55, -3), Lit(15, -3), Lit(215, -3),
                        Num(47), Lit(2, -4), Num(180)),
       Condition_Unroll(Lit(2, -2), Lit(2, -2), Lit(15, -3), Lit(215, -3),
                        Num(47), Lit(2, -4), Num(180)),
       Condition_Unroll(Lit(55, -3), Lit(2, -2), Lit(15, -3), Lit(215, -3),
                        Num(47), Lit(2, -4), Num(180)),
       Condition_Unroll(Lit(1, -2), Lit(3, -2), Lit(15, -3), Lit(1, -1),
                        Num(20), Lit(2, -4), Num(90)) >>

Conditions_Yoyo ==
    << Condition_Yoyo(Lit(8, -3), Lit(16, -3), Lit(35, -3), Lit(50, -3),
                      Num(1), Lit(98, -1), Num(1)),
       Condition_Yoyo(Lit(8, -3), Lit(8, -3), Lit(35, -3), Lit(50, -3),
                      Num(1), Lit(98, -1), Num(1)),
       Condition_Yoyo(Lit(8, -3), Lit(16, -3), Lit(35, -3), Lit(50, -3),
                      Num(1), Lit(98, -1), Num(-1)),
       Condition_Yoyo(Lit(5, -3), Lit(1, -2), Lit(3, -2), Lit(50, -3),
                      Lit(5, -1), Lit(98, -1), Num(1)) >>

Min(a, b) == IF a < b THEN a ELSE b

Conditions(sc) ==
    IF sc = "Roll" THEN SubSeq(Conditions_Roll, 1, Min(NumRoll, Len(Conditions_Roll)))
    ELSE IF sc = "Unroll" THEN SubSeq(Conditions_Unroll, 1, Min(NumUnroll, Len(Conditions_Unroll)))
    ELSE SubSeq(Conditions_Yoyo, 1, Min(NumYoyo, Len(Conditions_Yoyo)))

\* ------------------------------------------------------------------------
\* The notebook as a state machine
\* ------------------------------------------------------------------------

VARIABLES
    pc,         \* per scenario, the next cell of its section
    raised,     \* per scenario, whether one of its cells raised
    condition,  \* the global name condition (NoSeries: not bound)
    system,     \* the global name system (NoSystem: not bound)
    nsys,       \* the number of System objects created
    defs,       \* the functions the def cells have bound to their names
    glob,       \* the global variables unpack has made
    series,     \* the global names thetas, omegas, ys, rs
    t_end,      \* the global name t_end (NaN doubles as not bound)
    out,        \* what the last cell displayed
    sched,      \* the section whose cell ran last, and the switches so far
    given       \* per section, which Conditions its Condition cell may build

vars == <<pc, raised, condition, system, nsys, defs, glob, series, t_end, out, sched,
          given>>

\* The code cells of each section, in notebook order; cells that only
\* display or plot are left out.
Prog(sc) ==
    IF sc = "Roll" THEN
        <<"condition", "def_estimate_k", "def_make_system", "make_system",
          "def_slope_func", "slope_func", "run_odeint", "extract",
          "t_end", "R", "THETA">>
    ELSE IF sc = "Unroll" THEN
        <<"condition", "def_make_system", "make_system", "def_moment_of_inertia",
          "moi_Rmin", "moi_Rmax", "def_slope_func", "slope_func", "run_odeint",
          "extract">>
    ELSE
        <<"condition", "def_make_system", "make_system", "def_slope_func",
          "slope_func", "run_odeint", "extract">>

Done(sc) == pc[sc] > Len(Prog(sc))
At(sc, cell) == ~raised[sc] /\ ~Done(sc) /\ Prog(sc)[pc[sc]] = cell

Range(f) == {f[i] : i \in DOMAIN f}

SeriesNames == {"thetas", "omegas", "ys", "rs"}
NoOut == [cell |-> "", sc |-> "", val |-> <<>>]

Start ==
    /\ pc = [sc \in Scenarios |-> 1]
    /\ raised = [sc \in Scenarios |-> FALSE]
    /\ condition = NoSeries
    /\ system = NoSystem
    /\ nsys = 0
    /\ defs = [estimate_k |-> FALSE, make_system |-> "none",
               moment_of_inertia |-> FALSE, slope_func |-> "none"]
    /\ glob = NoSeries
    /\ series = [n \in SeriesNames |-> NoTimeSeries]
    /\ t_end = NaN
    /\ out = NoOut
    /\ sched = [cur |-> "", switches |-> 0]

\* The Condition cells build the notebook's Conditions or their variations.
Init ==
    /\ Start
    /\ given = [sc \in Scenarios |-> 1..Len(Conditions(sc))]

\* The cell ends normally / by raising an exception.
Advance(sc) == pc' = [pc EXCEPT ![sc] = @ + 1] /\ UNCHANGED raised
Raise(sc) == raised' = [raised EXCEPT ![sc] = TRUE] /\ UNCHANGED pc

\* condition = Condition(...)
BuildCondition(sc) ==
    /\ At(sc, "condition")
    /\ \E i \in given[sc] : condition' = Conditions(sc)[i]
    /\ out' = NoOut
    /\ Advance(sc)
    /\ UNCHANGED <<system, nsys, defs, glob, series, t_end>>

\* def estimate_k(condition): ...
DefEstimateK(sc) ==
    /\ At(sc, "def_estimate_k")
    /\ defs' = [defs EXCEPT !.estimate_k = TRUE]
    /\ out' = NoOut
    /\ Advance(sc)
    /\ UNCHANGED <<condition, system, nsys, glob, series, t_end>>

\* def make_system(condition): ...
DefMakeSystem(sc) ==
    /\ At(sc, "def_make_system")
    /\ defs' = [defs EXCEPT !.make_system = sc]
    /\ out' = NoOut
    /\ Advance(sc)
    /\ UNCHANGED <<condition, system, nsys, glob, series, t_end>>

\* def moment_of_inertia(r, system): ...
DefMomentOfInertia(sc) ==
    /\ At(sc, "def_moment_of_inertia")
    /\ defs' = [defs EXCEPT !.moment_of_inertia = TRUE]
    /\ out' = NoOut
    /\ Advance(sc)
    /\ UNCHANGED <<condition, system, nsys, glob, series, t_end>>

\* def slope_func(state, t, system): ...
DefSlopeFunc(sc) ==
    /\ At(sc, "def_slope_func")
    /\ defs' = [defs EXCEPT !.slope_func = sc]
    /\ out' = NoOut
    /\ Advance(sc)
    /\ UNCHANGED <<condition, system, nsys, glob, series, t_end>>

\* The function bound to the name make_system, applied.
make_system(fn, c, G) ==
    IF fn = "Roll" THEN make_system_Roll(c, G)
    ELSE IF fn = "Unroll" THEN make_system_Unroll(c, G)
    ELSE IF fn = "Yoyo" THEN make_system_Yoyo(c, G)
    ELSE NoSystem

\* system = make_system(condition)
CallMakeSystem(sc) ==
    /\ At(sc, "make_system")
    /\ \E bound \in {defs.make_system # "none" /\ condition # NoSeries} :
       \E new \in {IF bound THEN make_system(defs.make_system, condition, glob)
                   ELSE NoSystem} :
           /\ glob' = IF bound THEN unpack(condition, glob) ELSE glob
           /\ IF new = NoSystem
              THEN Raise(sc) /\ UNCHANGED <<system, nsys>>
              ELSE /\ system' = [new EXCEPT !.id = nsys + 1]
                   /\ nsys' = nsys + 1
                   /\ Advance(sc)
    /\ out' = NoOut
    /\ UNCHANGED <<condition, defs, series, t_end>>

\* moment_of_inertia(system.Rmin, system) and moment_of_inertia(system.Rmax, system)
CallMomentOfInertia(sc) ==
    /\ At(sc, "moi_Rmin") \/ At(sc, "moi_Rmax")
    /\ \E name \in {IF At(sc, "moi_Rmin") THEN "Rmin" ELSE "Rmax"} :
       \E bound \in {/\ defs.moment_of_inertia
                     /\ system # NoSystem
                     /\ system.fields[name] # Undef} :
       \E I \in {IF bound THEN moment_of_inertia(system.fields[name], system, glob)
                 ELSE NaN} :
           /\ glob' = IF bound THEN unpack(system.fields, glob) ELSE glob
           /\ IF IsNaN(I)
              THEN Raise(sc) /\ out' = NoOut
              ELSE Advance(sc) /\ out' = [cell |-> Prog(sc)[pc[sc]], sc |-> sc, val |-> <<I>>]
    /\ UNCHANGED <<condition, system, nsys, defs, series, t_end>>

\* The globals after a call of the function bound to slope_func: the call
\* unpacks the state before it unpacks the system.
GlobalsAfterSlope(fn, state, sys, G) ==
    IF fn = "none" \/ sys = NoSystem THEN G
    ELSE IF Len(state) # (IF fn = "Yoyo" THEN 4 ELSE 3) THEN G
    ELSE unpack(sys.fields, G)

\* The slope function call with the globals packed back into the system.
CallSlopeFunc_WritesBack(sc) ==
    /\ At(sc, "slope_func")
    /\ \E val \in {IF system = NoSystem THEN <<>>
                    ELSE slope_func(defs.slope_func, system.init, Zero, system, glob)} :
           /\ glob' = GlobalsAfterSlope(defs.slope_func, system.init, system, glob)
           /\ system' = IF system = NoSystem THEN system
                        ELSE [system EXCEPT !.fields = glob']
           /\ IF val = <<>>
              THEN Raise(sc) /\ out' = NoOut
              ELSE Advance(sc) /\ out' = [cell |-> "slope_func", sc |-> sc, val |-> val]
    /\ UNCHANGED <<condition, nsys, defs, series, t_end>>

\* slope_func(system.init, 0*s, system)
CallSlopeFunc(sc) ==
    /\ At(sc, "slope_func")
    /\ \E val \in {IF system = NoSystem THEN <<>>
                    ELSE slope_func(defs.slope_func, system.init, Zero, system, glob)} :
           /\ glob' = GlobalsAfterSlope(defs.slope_func, system.init, system, glob)
           /\ IF val = <<>>
              THEN Raise(sc) /\ out' = NoOut
              ELSE Advance(sc) /\ out' = [cell |-> "slope_func", sc |-> sc, val |-> val]
    /\ UNCHANGED <<condition, system, nsys, defs, series, t_end>>

\* run_odeint(system, slope_func)
RunOdeint(sc) ==
    /\ At(sc, "run_odeint")
    /\ \E res \in {IF system = NoSystem THEN <<>>
                    ELSE run_odeint(system, defs.slope_func, glob)} :
           /\ glob' = IF system = NoSystem THEN glob
                      ELSE GlobalsAfterSlope(defs.slope_func, system.init, system,
                                             unpack(system.fields, glob))
           /\ IF res = <<>>
              THEN Raise(sc) /\ UNCHANGED system
              ELSE Advance(sc) /\ system' = [system EXCEPT !.results = res]
    /\ out' = NoOut
    /\ UNCHANGED <<condition, nsys, defs, series, t_end>>

\* The assignments of each section's extraction cell, in order: the global
\* name, the column of the results, the factor the column is multiplied by.
Extraction(sc) ==
    IF sc = "Roll" THEN
        <<<<"thetas", "theta", Num(1)>>, <<"ys", "y", Num(1)>>, <<"rs", "r", Num(1000)>>>>
    ELSE IF sc = "Unroll" THEN
        <<<<"thetas", "theta", Num(1)>>, <<"omegas", "omega", Num(1)>>, <<"ys", "y", Num(1)>>>>
    ELSE
        <<<<"thetas", "theta", Num(1)>>, <<"ys", "y", Num(1)>>>>

Scaled(ts, f) == [t |-> ts.t, v |-> [i \in 1..Len(ts.v) |-> FMul(ts.v[i], f)]]

\* The names after the assignments i.. of the cell; a failing attribute
\* access ends the cell and leaves the earlier assignments in place.
RECURSIVE Extracted(_, _, _, _)
Extracted(asg, i, sys, S) ==
    IF i > Len(asg) THEN S
    ELSE LET col == Column(sys, asg[i][2])
         IN  IF col = NoTimeSeries THEN S
             ELSE Extracted(asg, i + 1, sys,
                            [S EXCEPT ![asg[i][1]] =
                                IF asg[i][3] = Num(1) THEN col ELSE Scaled(col, asg[i][3])])

ExtractOk(asg, sys) == \A i \in 1..Len(asg) : Column(sys, asg[i][2]) # NoTimeSeries

\* The extraction cell scaling the columns of the results in place.
Extract_InPlace(sc) ==
    /\ At(sc, "extract")
    /\ series' = Extracted(Extraction(sc), 1, system, series)
    /\ system' = IF system.results = <<>> THEN system
                 ELSE [system EXCEPT !.results =
                          [i \in 1..Len(@) |->
                              [c \in 1..Len(@[i]) |-> FMul(@[i][c], Num(1000))]]]
    /\ IF ExtractOk(Extraction(sc), system) THEN Advance(sc) ELSE Raise(sc)
    /\ out' = NoOut
    /\ UNCHANGED <<condition, nsys, defs, glob, t_end>>

\* thetas = system.results.theta ...
Extract(sc) ==
    /\ At(sc, "extract")
    /\ series' = Extracted(Extraction(sc), 1, system, series)
    /\ IF ExtractOk(Extraction(sc), system) THEN Advance(sc) ELSE Raise(sc)
    /\ out' = NoOut
    /\ UNCHANGED <<condition, system, nsys, defs, glob, t_end>>

\* The length the notebook asks the time of.
y_end == Num(47)

\* T = interp_inverse(ys, kind='cubic'); t_end = T(47)
QueryTEnd(sc) ==
    /\ At(sc, "t_end")
    /\ IF series["ys"] = NoTimeSeries
       THEN Raise(sc) /\ out' = NoOut /\ UNCHANGED t_end
       ELSE Advance(sc) /\ t_end' = interp_inverse(series["ys"], y_end)
                        /\ out' = [cell |-> "t_end", sc |-> sc, val |-> <<t_end'>>]
    /\ UNCHANGED <<condition, system, nsys, defs, glob, series>>

\* R = interpolate(rs, kind='cubic'); R(t_end)
QueryR(sc) ==
    /\ At(sc, "R")
    /\ IF series["rs"] = NoTimeSeries
       THEN Raise(sc) /\ out' = NoOut
       ELSE Advance(sc)
            /\ out' = [cell |-> "R", sc |-> sc, val |-> <<interpolate(series["rs"], t_end)>>]
    /\ UNCHANGED <<condition, system, nsys, defs, glob, series, t_end>>

\* THETA = interpolate(thetas, kind='cubic'); THETA(t_end)
QueryTheta(sc) ==
    /\ At(sc, "THETA")
    /\ IF series["thetas"] = NoTimeSeries
       THEN Raise(sc) /\ out' = NoOut
       ELSE Advance(sc)
            /\ out' = [cell |-> "THETA", sc |-> sc,
                       val |-> <<interpolate(series["thetas"], t_end)>>]
    /\ UNCHANGED <<condition, system, nsys, defs, glob, series, t_end>>

\* The sections run one after the other, and a cell that raises ends the run.
Before(sc) ==
    IF sc = "Roll" THEN {} ELSE IF sc = "Unroll" THEN {"Roll"} ELSE {"Roll", "Unroll"}

Turn(sc) ==
    /\ \A o \in Scenarios : ~raised[o]
    /\ \A o \in Before(sc) : Done(o)

Next ==
    \E sc \in Scenarios :
        /\ Turn(sc)
        /\ sched' = [sched EXCEPT !.cur = sc]
        /\ UNCHANGED given
        /\ \/ BuildCondition(sc)
           \/ DefEstimateK(sc)
           \/ DefMakeSystem(sc)
           \/ CallMakeSystem(sc)
           \/ DefMomentOfInertia(sc)
           \/ CallMomentOfInertia(sc)
           \/ DefSlopeFunc(sc)
           \/ CallSlopeFunc(sc)
           \/ RunOdeint(sc)
           \/ Extract(sc)
           \/ QueryTEnd(sc)
           \/ QueryR(sc)
           \/ QueryTheta(sc)

Spec == Init /\ [][Next]_vars

\* ------------------------------------------------------------------------
\* The functions of one section applied to a Condition of the caller's
\* ------------------------------------------------------------------------

\* The radii and lengths the Conditions are drawn from: multiples of 5 mm
\* and of 10 m.
MaxRadius == 3
MaxLen == 2

Radius(j) == FMul(Num(j), Lit(5, -3))
Length(l) == FMul(Num(l), Num(10))

GridCondition(sc, a, b, l) ==
    IF sc = "Roll" THEN Condition_Roll(Radius(a), Radius(b), Length(l), Num(130))
    ELSE IF sc = "Unroll" THEN
        Condition_Unroll(Radius(a), Radius(b), Lit(15, -3), Lit(215, -3), Length(l),
                         Lit(2, -4), Num(180))
    ELSE Condition_Yoyo(Radius(a), Radius(b), Lit(35, -3), Lit(50, -3), Length(l),
                        Lit(98, -1), Num(1))

CellIndex(sc, cell) == IndexOf(Prog(sc), cell, 1)

\* A fresh kernel in which one section has run up to its make_system call.
InitFun ==
    \E sc \in Scenarios, a \in 1..MaxRadius, b \in 1..MaxRadius, l \in 1..MaxLen :
        /\ pc = [o \in Scenarios |->
                    IF o = sc THEN CellIndex(sc, "make_system") ELSE Len(Prog(o)) + 1]
        /\ raised = [o \in Scenarios |-> FALSE]
        /\ condition = GridCondition(sc, a, b, l)
        /\ system = NoSystem
        /\ nsys = 0
        /\ defs = [estimate_k |-> sc = "Roll", make_system |-> sc,
                   moment_of_inertia |-> FALSE, slope_func |-> "none"]
        /\ glob = NoSeries
        /\ series = [n \in SeriesNames |-> NoTimeSeries]
        /\ t_end = NaN
        /\ out = NoOut
        /\ sched = [cur |-> sc, switches |-> 0]
        /\ given = [o \in Scenarios |-> {}]

NextFun ==
    \E sc \in Scenarios :
      /\ UNCHANGED <<sched, given>>
      /\
        \/ CallMakeSystem(sc)
        \/ DefMomentOfInertia(sc)
        \/ CallMomentOfInertia(sc)
        \/ DefSlopeFunc(sc)
        \/ CallSlopeFunc(sc)

SpecFun == InitFun /\ [][NextFun]_vars

\* ------------------------------------------------------------------------
\* The sections run side by side over the one global namespace
\* ------------------------------------------------------------------------

\* How many times a section is interrupted: another section's cell runs
\* while it has cells left.
MaxSwitches == 1

Interrupts(sc) ==
    /\ sched.cur \notin {"", sc}
    /\ ~Done(sched.cur)
    /\ ~raised[sched.cur]

Switch(sc) ==
    /\ Interrupts(sc) => sched.switches < MaxSwitches
    /\ sched' = [cur |-> sc,
                 switches |-> IF Interrupts(sc) THEN sched.switches + 1 ELSE sched.switches]

NextPar ==
    \E sc \in Scenarios :
      /\ Switch(sc)
      /\ UNCHANGED given
      /\
        \/ BuildCondition(sc)
        \/ DefEstimateK(sc)
        \/ DefMakeSystem(sc)
        \/ CallMakeSystem(sc)
        \/ DefMomentOfInertia(sc)
        \/ CallMomentOfInertia(sc)
        \/ DefSlopeFunc(sc)
        \/ CallSlopeFunc(sc)
        \/ RunOdeint(sc)
        \/ Extract(sc)
        \/ QueryTEnd(sc)
        \/ QueryR(sc)
        \/ QueryTheta(sc)

\* Every section builds the Condition the notebook writes.
InitPar ==
    /\ Start
    /\ given = [sc \in Scenarios |-> {1}]

SpecPar == InitPar /\ [][NextPar]_vars

\* ------------------------------------------------------------------------
\* Properties
\* ------------------------------------------------------------------------

\* The section sc has just run its cell named cell, which did not raise.
JustRan(sc, cell) ==
    /\ sched.cur = sc
    /\ ~raised[sc]
    /\ pc[sc] = CellIndex(sc, cell) + 1

\* The section sc is the one running and is past its cell named cell.
Past(sc, cell) == sched.cur = sc /\ pc[sc] > CellIndex(sc, cell)

Integrated(sys) == sys.results # <<>>

\* C1: a System is created without results, gets them in a run_odeint cell,
\* keeps them unchanged from then on, and no System is replaced or left at
\* the end of the run before it has got them.
C1_Lifecycle ==
    [][ /\ system'.id # system.id =>
              /\ ~Integrated(system')
              /\ system.id # 0 => Integrated(system)
        /\ system'.id = system.id /\ Integrated(system) =>
              system'.results = system.results
        /\ system'.id = system.id /\ ~Integrated(system) /\ Integrated(system') =>
              \E sc \in Scenarios : At(sc, "run_odeint")
        /\ (\A sc \in Scenarios : Done(sc))' => Integrated(system') ]_vars

C1_Witness ==
    /\ \A sc \in Scenarios : Done(sc)
    /\ system.id = 3
    /\ Integrated(system)

\* A Condition that violates the geometric invariants.
Violates(c) ==
    \/ FLess(c["Rmax"], c["Rmin"])
    \/ c["Rmax"] = c["Rmin"]
    \/ FLeq(c["duration"], Zero)

\* C2: no section gets past its make_system call with a Condition that
\* violates the geometric invariants (Rmax < Rmin, Rmax = Rmin, duration <= 0).
C2_FailFast ==
    \A sc \in Scenarios : Past(sc, "make_system") => ~Violates(condition)

IsYoyo(sys) == sys.index = <<"theta", "omega", "y", "v">>
Zeros4 == <<Zero, Zero, Zero, Zero>>

\* C3: in the results of a yo-yo System, the slope function returns
\* (0, 0, 0, 0) at every sample with y < 0, every later sample equals that
\* sample, and the samples run to the end of the time grid.
C3_Freeze ==
    (IsYoyo(system) /\ Integrated(system)) =>
        /\ Len(system.results) = Len(system.ts)
        /\ \A i \in 1..Len(system.results) :
              FLess(system.results[i][3], Zero) =>
                  /\ slope_func_Yoyo(system.results[i], system.ts[i], system, glob) = Zeros4
                  /\ \A j \in i..Len(system.results) :
                        system.results[j] = system.results[i]

C3_Witness ==
    /\ IsYoyo(system)
    /\ Integrated(system)
    /\ \E i \in 1..(Len(system.results) - 1) : FLess(system.results[i][3], Zero)

\* C4: the results of an integrated System hold one row per point of its
\* time grid, 101 of them, a value per state variable in each, the first row
\* being the initial state; the series extracted from them are indexed by
\* the grid.
C4_Samples ==
    /\ Integrated(system) =>
          /\ Len(system.ts) = NumSamples
          /\ Len(system.results) = NumSamples
          /\ \A i \in 1..Len(system.results) : Len(system.results[i]) = Len(system.index)
          /\ system.results[1] = system.init
    /\ \A sc \in Scenarios : JustRan(sc, "extract") =>
          \A i \in 1..Len(Extraction(sc)) :
              /\ series[Extraction(sc)[i][1]].t = system.ts
              /\ Len(series[Extraction(sc)[i][1]].v) = NumSamples

C4_Witness == JustRan("Roll", "extract") /\ Integrated(system)

returns(fn) ==
    IF fn = "Roll" THEN returns_Roll
    ELSE IF fn = "Unroll" THEN returns_Unroll
    ELSE IF fn = "Yoyo" THEN returns_Yoyo
    ELSE <<>>

\* C5: the tuple a section's slope function returns for the initial state
\* has as many values as the state, and its i-th value is the derivative of
\* the i-th state variable.
C5_Correspondence ==
    \A sc \in Scenarios : JustRan(sc, "slope_func") =>
        /\ Len(out.val) = Len(system.init)
        /\ returns(defs.slope_func) = system.index

C5_Witness == JustRan("Yoyo", "slope_func") /\ Len(out.val) = 4

\* C6: no cell changes the initial state, the constants or the time grid of
\* a System, and only a run_odeint cell changes its results.
C6_Immutable ==
    [][ system'.id = system.id =>
            /\ system'.init = system.init
            /\ system'.index = system.index
            /\ system'.fields = system.fields
            /\ system'.ts = system.ts
            /\ system'.results # system.results =>
                  \E sc \in Scenarios : At(sc, "run_odeint") ]_vars

C6_Witness == JustRan("Unroll", "run_odeint") /\ Integrated(system)

\* What a section computes when it runs alone on the notebook's Condition.
AloneSystem(sc) == make_system(sc, Conditions(sc)[1], NoSeries)
AloneGlobals(sc) == unpack(Conditions(sc)[1], NoSeries)
AloneSlope(sc) ==
    slope_func(sc, AloneSystem(sc).init, Zero, AloneSystem(sc), AloneGlobals(sc))
AloneResults(sc) == run_odeint(AloneSystem(sc), sc, AloneGlobals(sc))

\* C7: however the cells of the sections interleave, no cell of a section
\* raises, and the derivative values and the trajectory of each section are
\* those it computes when run alone.
C7_Independent ==
    \A sc \in Scenarios :
        /\ ~raised[sc]
        /\ JustRan(sc, "slope_func") => out.val = AloneSlope(sc)
        /\ JustRan(sc, "run_odeint") => system.results = AloneResults(sc)

\* C8: for a Condition with positive radii, positive L and Rmax > Rmin,
\* make_system returns a System and its k is strictly positive.
C8_KPositive ==
    \A sc \in Scenarios :
        (sched.cur = sc /\ FLess(condition["Rmin"], condition["Rmax"])) =>
            /\ ~raised[sc]
            /\ Past(sc, "make_system") => FSign(system.fields["k"]) > 0

C8_Witness ==
    /\ Past("Roll", "make_system")
    /\ FLess(condition["Rmin"], condition["Rmax"])
    /\ system # NoSystem

\* |a - b| <= rel * |b|
Close(a, b, rel) == FLeq(FAbs(FSub(a, b)), FMul(rel, FAbs(b)))

\* The relative tolerance of the end-to-end comparisons.
Tol == Lit(1, -4)

Last(q) == q[Len(q)]

\* The Roll section has extracted its series, y reaches L within the grid.
RollReaches ==
    /\ Past("Roll", "extract")
    /\ ~Violates(condition)
    /\ FLeq(condition["L"], Last(series["ys"].v))

\* C9: at the time y first reaches L the radius is Rmax and theta is the
\* total rotation estimate_k derived k from, within the tolerance; for the
\* notebook's Condition the cells display a t_end inside the grid, a radius
\* of 55 mm and a rotation of about 1253 rad.
C9_RollEndToEnd ==
    /\ RollReaches =>
          LET t == interp_inverse(series["ys"], condition["L"])
          IN  /\ Close(interpolate(series["rs"], t),
                       FMul(condition["Rmax"], Num(1000)), Tol)
              /\ Close(interpolate(series["thetas"], t), total_rotation(condition), Tol)
    /\ (Past("Roll", "extract") /\ condition = Conditions_Roll[1]) =>
          /\ JustRan("Roll", "t_end") =>
                FLeq(Zero, out.val[1]) /\ FLeq(out.val[1], condition["duration"])
          /\ JustRan("Roll", "R") => Close(out.val[1], Num(55), Tol)
          /\ JustRan("Roll", "THETA") => Close(out.val[1], Num(1253), Lit(1, -3))

C9_Witness ==
    /\ JustRan("Roll", "THETA")
    /\ condition = Conditions_Roll[1]
    /\ RollReaches

\* The Unroll section has integrated its System.
UnrollIntegrated == Past("Unroll", "run_odeint") /\ Integrated(system)

\* Row i of the results and every row before it have y >= 0.
Unrolling(i) == \A j \in 1..i : FLeq(Zero, system.results[j][3])

\* omega is not negative in any sample and y does not increase.
UnrollMonotone(n) ==
    \A i \in 1..n :
        /\ FLeq(Zero, system.results[i][2])
        /\ FLeq(Zero, slope_func_Unroll(system.results[i], system.ts[i], system, glob)[2])
        /\ i > 1 => FLeq(system.results[i][3], system.results[i - 1][3])

Documented_Unroll == {"Rmin", "k", "Mcore", "rho_h", "tension"}

\* C11: the System the Unroll section's make_system returned holds Rmin, k,
\* Mcore, rho_h and tension, and the slope function applied to its initial
\* state gives the same value whatever the globals hold.
C11_SystemComplete ==
    (Past("Unroll", "make_system") /\ system # NoSystem) =>
        /\ Defined(system.fields, Documented_Unroll)
        /\ slope_func_Unroll(system.init, Zero, system, NoSeries)
             = slope_func_Unroll(system.init, Zero, system, glob)

\* The Roll section runs on a Condition with Rmax = Rmin.
RollEqualRadii == sched.cur = "Roll" /\ condition["Rmax"] = condition["Rmin"]

MaxParts == 4

PartOf(L, j) == FDiv(FMul(Num(j), L), Num(MaxParts))

\* a <= b within the tolerance.
LeqTol(a, b) == FLeq(a, FAdd(b, FMul(Tol, FAbs(b))))

\* The Unroll section's make_system has returned a System for a Condition
\* with Rmin < Rmax.
UnrollBuilt ==
    /\ Past("Unroll", "make_system")
    /\ system # NoSystem
    /\ FLess(condition["Rmin"], condition["Rmax"])

\* C13: with the k of make_system, the radius the unrolling slope function
\* computes is Rmax at the initial state (y = L) and Rmin at y = 0, within
\* the tolerance, and for every y from 0 to L the argument of the square
\* root is not negative and Rmin <= r <= Rmax within the tolerance.
C13_Radius ==
    UnrollBuilt =>
        LET g == unpack(system.fields, glob)
        IN  /\ system.init[3] = condition["L"]
            /\ Close(radius_Unroll(system.init[3], g), condition["Rmax"], Tol)
            /\ Close(radius_Unroll(Zero, g), condition["Rmin"], Tol)
            /\ \A j \in 0..MaxParts :
                  /\ FLeq(Zero, radicand_Unroll(PartOf(condition["L"], j), g))
                  /\ LeqTol(condition["Rmin"], radius_Unroll(PartOf(condition["L"], j), g))
                  /\ LeqTol(radius_Unroll(PartOf(condition["L"], j), g), condition["Rmax"])

C13_Witness == UnrollBuilt /\ JustRan("Unroll", "slope_func")
====
